---------------------------- MODULE Spec2Model ----------------------------
(***************************************************************************)
(* Model of Unemployment_Analysis_with_Python.py: a Streamlit script that  *)
(* loads a CSV of regional unemployment observations (load_data, cached by *)
(* st.cache_data), and on every run of main() computes the overview group  *)
(* means, the regional section (filter by region / period / area, grouped  *)
(* means) and the Covid-19 impact section (pre/post window means, changes, *)
(* most affected region).                                                  *)
(*                                                                         *)
(* Numbers.  The rates of the model's files are whole numbers, which        *)
(* read_csv parses exactly and whose sums are exact.  Every mean,           *)
(* difference, quotient and product is a float64, computed as the hardware  *)
(* computes it: the exact result rounded to the nearest float64, ties to    *)
(* even, with NaN, the infinities, signed zeros and subnormals.  A float is *)
(* the record [k, s, hi, lo, e]: k is "num", "inf" or "nan", s the sign (1  *)
(* or -1) and, for k = "num", the value is s * (hi * 2^27 + lo) * 2^e with  *)
(* the significand hi * 2^27 + lo below 2^53, and at least 2^52 unless      *)
(* e = -1074 (zero and the subnormals).  Each float has one such record.    *)
(* Dates are the integers YYYYMMDD, whose order is the calendar order.      *)
(***************************************************************************)
EXTENDS Integers, Sequences, FiniteSets, TLC

VARIABLES
    file,              \* rows of the CSV on disk, as written (raw header names, raw date text)
    cache,             \* st.cache_data entry of load_data(): Unbound or the cached frame
    df,                \* main: df = load_data()
    selected_regions,  \* st.multiselect value (a list, in the order picked)
    time_period,       \* st.slider value (start, end); Unbound while the slider is not rendered
    selected_area,     \* st.radio value; Unbound while the radio is not rendered
    warning,           \* TRUE when st.warning("Please select at least one region") was shown
    monthly_data,      \* line 68
    area_data,         \* line 91
    filtered_df,       \* lines 154-176
    region_data,       \* lines 182-183
    region_time_data,  \* line 203
    corr_df,           \* lines 227-241 (Region column only)
    pre_covid_df,      \* line 282
    post_covid_df,     \* line 283
    pre_covid_avg,     \* line 286
    post_covid_avg,    \* line 287
    percent_change,    \* line 288
    most_affected,     \* line 318
    covid_monthly,     \* line 358
    region_impact_df,  \* lines 381-396
    area_impact,       \* lines 417-424: rural/urban pre, post and percentage change
    raised,            \* TRUE when the run ended in the exception of line 318
    argsort_ties,      \* the order the build's unstable sort leaves equal values in
    file_rows_seen     \* history: the number of rows the CSV had when main() last ran

vars == <<file, cache, df, selected_regions, time_period, selected_area, warning,
          monthly_data, area_data, filtered_df, region_data, region_time_data,
          corr_df, pre_covid_df, post_covid_df, pre_covid_avg, post_covid_avg,
          percent_change, most_affected, covid_monthly, region_impact_df,
          area_impact, raised, argsort_ties, file_rows_seen>>

-----------------------------------------------------------------------------
(* Bounds of the model. *)

\* Longest CSV (number of data rows) the dashboard specification starts from or grows to.
MaxFileRows == 2
\* Longest CSV the pure filter / aggregation specification draws.
MaxViewRows == 2
\* Longest CSV the Covid-impact specification draws.
MaxImpactRows == 3
\* Longest CSV the most-affected-region specification draws.
MaxTieRows == 4

\* A table-valued name of main() that the run has not assigned (a table is a
\* sequence of rows, so this one-row table with a column of its own equals none).
Unbound == <<[unbound |-> TRUE]>>
\* The same for a name that holds a number or a single row.
Unset == [unbound |-> TRUE]
\* The slider and the radio exist only in the runs that render them.
NoPeriod == <<>>
NoArea == "(not rendered)"

-----------------------------------------------------------------------------
(* Column names. *)

RateCol == "Estimated Unemployment Rate (%)"

\* str.strip() on the header names the CSV carries (line 22).
strip_name(c) ==
    CASE c = " Date" -> "Date"
      [] c = " Estimated Unemployment Rate (%)" -> RateCol
      [] OTHER -> c

\* Header of the CSV as it is on disk.
RawColumns == {"Region", " Date", " Estimated Unemployment Rate (%)", "Area"}

-----------------------------------------------------------------------------
(* float64 arithmetic (IEEE 754 binary64, round to nearest, ties to even). *)
(* The operators work in stages that hand their intermediate results on as  *)
(* arguments.                                                               *)

Abs(x) == IF x < 0 THEN -x ELSE x

\* A significand is held in two limbs, hi * Limb + lo with 0 <= lo < Limb,
\* because the checker's integers are 32 bits wide.
Limb == 2^27

\* The least and the greatest exponent e of a float64 written as m * 2^e
\* with an integer significand m < 2^53.
MinExp == -1074
MaxExp == 971

NaN == [k |-> "nan", s |-> 1, hi |-> 0, lo |-> 0, e |-> 0]
Inf(s) == [k |-> "inf", s |-> s, hi |-> 0, lo |-> 0, e |-> 0]
PosInf == Inf(1)
NegInf == Inf(-1)
SignedZero(s) == [k |-> "num", s |-> s, hi |-> 0, lo |-> 0, e |-> MinExp]
Zero == SignedZero(1)

IsFinite(x) == x.k = "num"
IsZero(x) == x.k = "num" /\ x.hi = 0 /\ x.lo = 0

RECURSIVE BitLen(_)
BitLen(x) == IF x = 0 THEN 0 ELSE 1 + BitLen(x \div 2)

\* The number of bits of hi * Limb + lo.
Width(hi, lo) == IF hi > 0 THEN 27 + BitLen(hi) ELSE BitLen(lo)

\* (hi, lo) shifted left by k bits.
RECURSIVE ShiftLeft(_, _, _)
ShiftLeft(hi, lo, k) ==
    IF k = 0 THEN <<hi, lo>>
    ELSE IF k >= 27 THEN ShiftLeft(hi * Limb + lo, 0, k - 27)
    ELSE <<hi * 2^k + lo \div 2^(27 - k), (lo % 2^(27 - k)) * 2^k>>

\* A shifted value <<hi, lo, lost>> that lost a 1 bit before, or not.
AlsoLost(x, lost) == <<x[1], x[2], x[3] \/ lost>>

\* (hi, lo) shifted right by k bits, and whether a 1 bit was shifted out.
\* hi may be wider than a limb (hi < 2^31).
RECURSIVE ShiftRight(_, _, _)
ShiftRight(hi, lo, k) ==
    IF k = 0 THEN <<hi, lo, FALSE>>
    ELSE IF k > 62 THEN <<0, 0, hi # 0 \/ lo # 0>>
    ELSE IF k >= 27 THEN AlsoLost(ShiftRight(hi \div Limb, hi % Limb, k - 27), lo # 0)
    ELSE <<hi \div 2^k, (hi % 2^k) * 2^(27 - k) + lo \div 2^k, lo % 2^k # 0>>

\* The float of sign s, significand hi * Limb + lo <= 2^53 and exponent e.
Pack(s, hi, lo, e) ==
    IF hi = 0 /\ lo = 0 THEN SignedZero(s)
    ELSE IF e + (IF hi = 2^26 THEN 1 ELSE 0) > MaxExp THEN Inf(s)
    ELSE IF hi = 2^26 THEN [k |-> "num", s |-> s, hi |-> 2^25, lo |-> 0, e |-> e + 1]
    ELSE [k |-> "num", s |-> s, hi |-> hi, lo |-> lo, e |-> e]

\* x = <<hi, lo, lost>> is a significand followed by a round bit and one
\* more bit; lost or sticky says that 1 bits lie below those.  Round to
\* nearest, ties to even.
RoundTail(s, x, e, sticky) ==
    LET up == \/ x[2] % 4 = 3
              \/ x[2] % 4 = 2 /\ (sticky \/ x[3] \/ (x[2] \div 4) % 2 = 1)
        lo == (x[1] % 4) * 2^25 + x[2] \div 4
    IN IF up /\ lo + 1 = Limb THEN Pack(s, x[1] \div 4 + 1, 0, e)
       ELSE Pack(s, x[1] \div 4, IF up THEN lo + 1 ELSE lo, e)

\* x = <<hi, lo, lost>> has 55 bits and stands for x * 2^e.  Below the
\* normal range fewer bits are kept.
RoundUnder(s, x, e, sticky) ==
    IF e + 2 < MinExp
    THEN RoundTail(s, ShiftRight(x[1], x[2], MinExp - (e + 2)), MinExp, sticky \/ x[3])
    ELSE RoundTail(s, x, e + 2, sticky)

\* The same for a value of n bits.
RoundWide(s, hi, lo, e, sticky, n) ==
    IF n >= 55
    THEN RoundUnder(s, ShiftRight(hi, lo, n - 55), e + (n - 55), sticky)
    ELSE RoundUnder(s, ShiftLeft(hi, lo, 55 - n) \o <<FALSE>>, e + (n - 55), sticky)

\* The float64 nearest to s * (hi * Limb + lo + f) * 2^e, where f is 0 when
\* sticky is FALSE and some fraction strictly between 0 and 1 when it is TRUE
\* (then the integer has at least 55 bits).  hi < 2^31.
RoundPack(s, hi, lo, e, sticky) ==
    IF hi = 0 /\ lo = 0 THEN SignedZero(s)
    ELSE RoundWide(s, hi, lo, e, sticky, Width(hi, lo))

\* float(i) for an integer i.
FromInt(i) == RoundPack(IF i < 0 THEN -1 ELSE 1, Abs(i) \div Limb, Abs(i) % Limb, 0, FALSE)

FNeg(a) == IF a.k = "nan" THEN a ELSE [a EXCEPT !.s = -a.s]

\* |a| > |b| for two finite floats.
MagGt(a, b) ==
    \/ a.e > b.e
    \/ a.e = b.e /\ (a.hi > b.hi \/ (a.hi = b.hi /\ a.lo > b.lo))

\* a == b
FEq(a, b) ==
    /\ a.k # "nan" /\ b.k # "nan"
    /\ \/ a = b
       \/ IsZero(a) /\ IsZero(b)

\* a > b; FALSE when either side is NaN.
FGt(a, b) ==
    IF a.k = "nan" \/ b.k = "nan" \/ FEq(a, b) THEN FALSE
    ELSE IF a.k = "inf" THEN a.s = 1
    ELSE IF b.k = "inf" THEN b.s = -1
    ELSE IF IsZero(a) THEN b.s = -1
    ELSE IF IsZero(b) THEN a.s = 1
    ELSE IF a.s # b.s THEN a.s = 1
    ELSE IF a.s = 1 THEN MagGt(a, b) ELSE MagGt(b, a)

\* The float nearest s * (hi * Limb + lo) * 2^e for a lo that may lie outside
\* its limb; an exact zero is +0.
RoundSum(s, hi, lo, e, sticky) ==
    IF lo % Limb = 0 /\ hi + lo \div Limb = 0 THEN Zero
    ELSE RoundPack(s, hi + lo \div Limb, lo % Limb, e, sticky)

\* sb * xb + ss * xs, for xb = <<hi, lo>> and xs = <<hi, lo, lost>> with
\* the bits of xs that were shifted out (lost) still to be counted.
AddMags(sb, ss, xb, xs, e) ==
    IF sb = ss THEN RoundSum(sb, xb[1] + xs[1], xb[2] + xs[2], e, xs[3])
    ELSE IF xb[1] > xs[1] \/ (xb[1] = xs[1] /\ xb[2] >= xs[2])
         \* xb - xs leaves 1 - f behind when bits of xs were shifted out
         THEN RoundSum(sb, xb[1] - xs[1], xb[2] - xs[2] - (IF xs[3] THEN 1 ELSE 0), e, xs[3])
    ELSE RoundSum(ss, xs[1] - xb[1], xs[2] - xb[2], e, FALSE)

\* big + small for two finite nonzero floats, big.e >= small.e: three more
\* bits below both significands, then small aligned to big.
AddAligned(big, small) ==
    AddMags(big.s, small.s,
            <<big.hi * 8 + big.lo \div 2^24, (big.lo % 2^24) * 8>>,
            ShiftRight(small.hi * 8 + small.lo \div 2^24, (small.lo % 2^24) * 8,
                       big.e - small.e),
            big.e - 3)

\* a + b
FAdd(a, b) ==
    IF a.k = "nan" \/ b.k = "nan" THEN NaN
    ELSE IF a.k = "inf" THEN (IF b.k = "inf" /\ b.s # a.s THEN NaN ELSE a)
    ELSE IF b.k = "inf" THEN b
    ELSE IF IsZero(a) /\ IsZero(b) THEN (IF a.s = b.s THEN a ELSE Zero)
    ELSE IF IsZero(a) THEN b
    ELSE IF IsZero(b) THEN a
    ELSE IF b.e > a.e THEN AddAligned(b, a)
    ELSE AddAligned(a, b)

\* a - b
FSub(a, b) == FAdd(a, FNeg(b))

\* The significand x = <<hi, lo>> with exponent e, in four 14-bit limbs,
\* least first: [m |-> limbs, e |-> e].
Limbs14(x, e) ==
    [m |-> <<x[2] % 2^14, x[2] \div 2^14 + (x[1] % 2) * 2^13,
             (x[1] \div 2) % 2^14, x[1] \div 2^15>>,
     e |-> e]

\* The significand of a finite nonzero float shifted left by k bits.
Scaled(a, k) == Limbs14(ShiftLeft(a.hi, a.lo, k), a.e - k)

\* The significand with its leading bit at 2^(w - 1).
Normal(a, w) == Scaled(a, w - Width(a.hi, a.lo))

\* Columns of a sum in base 2^14 (of any sign), least first, carried into
\* limbs; the last column takes the last carry as it is.
RECURSIVE Carry14(_, _)
Carry14(cols, carry) ==
    IF Len(cols) = 1 THEN <<cols[1] + carry>>
    ELSE <<(cols[1] + carry) % 2^14>> \o Carry14(Tail(cols), (cols[1] + carry) \div 2^14)

\* The estimate q of a quotient digit put right: while the remainder
\* r = <<four limbs, top>> is negative, q is one too large.
RECURSIVE AddBack(_, _, _)
AddBack(q, r, d) ==
    IF r[5] < 0
    THEN AddBack(q - 1, Carry14(<<r[1] + d[1], r[2] + d[2], r[3] + d[3], r[4] + d[4], r[5]>>, 0), d)
    ELSE <<q, <<r[1], r[2], r[3], r[4]>>>>

\* r * 2^14 - q * d
TimesBaseMinus(r, q, d) ==
    Carry14(<<-(q * d[1]), r[1] - q * d[2], r[2] - q * d[3], r[3] - q * d[4], r[4]>>, 0)

\* The estimate of the next quotient digit from the leading limbs.
DigitEstimate(r, d) ==
    IF (r[4] * 2^14 + r[3]) \div d[4] > 2^14 - 1 THEN 2^14 - 1
    ELSE (r[4] * 2^14 + r[3]) \div d[4]

\* The estimate q put to work on the remainder r.
DigitFrom(q, r, d) == AddBack(q, TimesBaseMinus(r, q, d), d)

\* One digit (base 2^14) of the long division by d, four limbs with the
\* leading bit at 2^55; r < d is the remainder so far (Knuth, algorithm D).
\* Result: <<digit, remainder>>.
DivDigit(r, d) == DigitFrom(DigitEstimate(r, d), r, d)

\* k more digits after the step st = <<digit, remainder>>: <<digits, remainder>>.
RECURSIVE DivDigits(_, _, _, _)
DivDigits(qs, st, d, k) ==
    IF k = 0 THEN <<Append(qs, st[1]), st[2]>>
    ELSE DivDigits(Append(qs, st[1]), DivDigit(st[2], d), d, k - 1)

\* The float for the quotient digits q = <<q4, q3, q2, q1, q0>> and what is left.
DivPack(s, q, e) ==
    RoundPack(s, q[1][1] * 2^29 + q[1][2] * 2^15 + q[1][3] * 2 + q[1][4] \div 2^13,
              (q[1][4] % 2^13) * 2^14 + q[1][5], e, q[2] # <<0, 0, 0, 0>>)

\* floor(x / y * 2^56) digit by digit, x and y of 56 bits.
DivLimbs(s, x, y, e) ==
    IF Carry14(<<x[1] - y[1], x[2] - y[2], x[3] - y[3], x[4] - y[4], 0>>, 0)[5] >= 0
    THEN DivPack(s, DivDigits(<<>>, AddBack(1, Carry14(<<x[1] - y[1], x[2] - y[2], x[3] - y[3],
                                                       x[4] - y[4], 0>>, 0), y), y, 4), e)
    ELSE DivPack(s, DivDigits(<<>>, <<0, x>>, y, 4), e)

DivNormal(s, x, y) == DivLimbs(s, x.m, y.m, x.e - y.e - 56)

\* a / b as numpy.float64 divides: x/0 is +-inf, 0/0 is NaN, no exception.
FDiv(a, b) ==
    IF a.k = "nan" \/ b.k = "nan" THEN NaN
    ELSE IF a.k = "inf" THEN (IF b.k = "inf" THEN NaN ELSE Inf(a.s * b.s))
    ELSE IF b.k = "inf" THEN SignedZero(a.s * b.s)
    ELSE IF IsZero(b) THEN (IF IsZero(a) THEN NaN ELSE Inf(a.s * b.s))
    ELSE IF IsZero(a) THEN SignedZero(a.s * b.s)
    ELSE DivNormal(a.s * b.s, Normal(a, 56), Normal(b, 56))

\* The float for the product limbs d = <<d0, ..., d6 and above>>: the product
\* without its 49 lowest bits, and whether those hold a 1.
MulPack(s, d, e) ==
    RoundPack(s, d[7] * 2^8 + d[6] \div 2^6,
              (d[6] % 2^6) * 2^21 + d[5] * 2^7 + d[4] \div 2^7, e,
              d[4] % 2^7 # 0 \/ d[3] # 0 \/ d[2] # 0 \/ d[1] # 0)

\* The schoolbook product of two significands of 53 bits, column by column.
MulLimbs(s, p, q, e) ==
    MulPack(s, Carry14(<<p[1] * q[1],
                         p[1] * q[2] + p[2] * q[1],
                         p[1] * q[3] + p[2] * q[2] + p[3] * q[1],
                         p[1] * q[4] + p[2] * q[3] + p[3] * q[2] + p[4] * q[1],
                         p[2] * q[4] + p[3] * q[3] + p[4] * q[2],
                         p[3] * q[4] + p[4] * q[3],
                         p[4] * q[4]>>, 0), e)

MulNormal(s, x, y) == MulLimbs(s, x.m, y.m, x.e + y.e + 49)

\* a * b
FMul(a, b) ==
    IF a.k = "nan" \/ b.k = "nan" THEN NaN
    ELSE IF a.k = "inf" \/ b.k = "inf"
         THEN (IF IsZero(a) \/ IsZero(b) THEN NaN ELSE Inf(a.s * b.s))
    ELSE IF IsZero(a) \/ IsZero(b) THEN SignedZero(a.s * b.s)
    ELSE MulNormal(a.s * b.s, Normal(a, 53), Normal(b, 53))


RECURSIVE SumSeq(_)
SumSeq(s) == IF s = <<>> THEN 0 ELSE Head(s) + SumSeq(Tail(s))

\* Series.mean(): the sum over the count, NaN for an empty series.
mean(s) == IF s = <<>> THEN NaN ELSE FDiv(FromInt(SumSeq(s)), FromInt(Len(s)))

-----------------------------------------------------------------------------
(* Tables: a DataFrame is a sequence of rows, a row a record of its columns. *)

Range(s) == {s[i] : i \in 1..Len(s)}

\* One column of a table, as a sequence (df[c]).
Column(t, c) == [i \in 1..Len(t) |-> t[i][c]]

\* Series.unique(): the distinct values in order of first appearance.
RECURSIVE unique(_)
unique(s) ==
    IF s = <<>> THEN <<>>
    ELSE LET rest == unique(SubSeq(s, 1, Len(s) - 1))
         IN IF s[Len(s)] \in Range(rest) THEN rest ELSE Append(rest, s[Len(s)])

\* Python's order on the strings of the model (str comparison is by code point).
StrOrder == <<"A", "B", "Rural", "Urban">>
StrRank(x) == CHOOSE i \in 1..Len(StrOrder) : StrOrder[i] = x

\* The sort key of a group key value: dates are ordered integers, strings by StrOrder.
KeyRank(c, v) == IF c = "Date" THEN v ELSE StrRank(v)

\* Lexicographic order of two key tuples over the key columns `keys`.
RECURSIVE LexLess(_, _, _)
LexLess(a, b, keys) ==
    IF keys = <<>> THEN FALSE
    ELSE LET ra == KeyRank(Head(keys), Head(a))
             rb == KeyRank(Head(keys), Head(b))
         IN IF ra # rb THEN ra < rb ELSE LexLess(Tail(a), Tail(b), Tail(keys))

\* A set of key tuples in ascending order (groupby's sort=True).
RECURSIVE SortKeys(_, _)
SortKeys(S, keys) ==
    IF S = {} THEN <<>>
    ELSE LET m == CHOOSE x \in S : \A y \in S : ~LexLess(y, x, keys)
         IN <<m>> \o SortKeys(S \ {m}, keys)

\* sorted([str(region) for region in ...]): a list of strings in ascending order.
RECURSIVE sorted(_)
sorted(s) ==
    IF s = <<>> THEN <<>>
    ELSE LET i == CHOOSE i \in 1..Len(s) : \A j \in 1..Len(s) : StrRank(s[i]) <= StrRank(s[j])
         IN <<s[i]>> \o sorted(SubSeq(s, 1, i - 1) \o SubSeq(s, i + 1, Len(s)))

\* groupby_mean as it would be with every combination of the key columns'
\* values emitted (pandas' observed=False on categorical keys): the
\* combinations no row carries get a NaN mean.
groupby_mean_all_combinations(t, keys) ==
    LET Values(k) == {t[i][keys[k]] : i \in 1..Len(t)}
        RECURSIVE Product(_)
        Product(k) == IF k = 0 THEN {<<>>}
                      ELSE {Append(key, v) : key \in Product(k - 1), v \in Values(k)}
        combos == Product(Len(keys))
        KeyOf(r) == [k \in 1..Len(keys) |-> r[keys[k]]]
        ks == SortKeys(combos, keys)
        Group(key) == SelectSeq(t, LAMBDA r : KeyOf(r) = key)
        Pos(c) == CHOOSE k \in 1..Len(keys) : keys[k] = c
        Row(key) == [c \in Range(keys) \cup {RateCol} |->
                        IF c = RateCol THEN mean(Column(Group(key), RateCol))
                        ELSE key[Pos(c)]]
    IN [i \in 1..Len(ks) |-> Row(ks[i])]

\* t.groupby(keys)[RateCol].mean().reset_index(): one row per key tuple that
\* occurs in t, in ascending key order, carrying the mean rate of its rows.
groupby_mean(t, keys) ==
    LET KeyOf(r) == [k \in 1..Len(keys) |-> r[keys[k]]]
        ks == SortKeys({KeyOf(t[i]) : i \in 1..Len(t)}, keys)
        Group(key) == SelectSeq(t, LAMBDA r : KeyOf(r) = key)
        Pos(c) == CHOOSE k \in 1..Len(keys) : keys[k] = c
        Row(key) == [c \in Range(keys) \cup {RateCol} |->
                        IF c = RateCol THEN mean(Column(Group(key), RateCol))
                        ELSE key[Pos(c)]]
    IN [i \in 1..Len(ks) |-> Row(ks[i])]

\* t.sort_values(c, ascending=False): the rows with a number by descending
\* value, then the NaN rows in their order in t.  The default sort (kind =
\* 'quicksort') is not stable: rows of equal value come out in the order the
\* build's argsort leaves them in, here the order of their positions in
\* argsort_ties.
sort_values_desc(t, c) ==
    LET Rank(i) == CHOOSE k \in 1..Len(argsort_ties) : argsort_ties[k] = i
        Before(i, j) ==
            IF t[i][c] = NaN THEN t[j][c] = NaN /\ i < j
            ELSE \/ t[j][c] = NaN
                 \/ FGt(t[i][c], t[j][c])
                 \/ FEq(t[i][c], t[j][c]) /\ Rank(i) < Rank(j)
        Place(i) == 1 + Cardinality({j \in 1..Len(t) : Before(j, i)})
    IN [k \in 1..Len(t) |-> t[CHOOSE i \in 1..Len(t) : Place(i) = k]]

-----------------------------------------------------------------------------
(* load_data (lines 16-32). *)

\* str.strip() on a date cell: the text without its leading spaces.
str_strip(cell) == cell.text

\* pd.to_datetime(text, dayfirst=True) on "DD-MM-YYYY": first field the day.
to_datetime(text) == text[3] * 10000 + text[2] * 100 + text[1]

MonthNames == <<"Jan", "Feb", "Mar", "Apr", "May", "Jun",
                "Jul", "Aug", "Sep", "Oct", "Nov", "Dec">>

\* One row of the frame load_data returns, from one row of the CSV.
load_row(raw) ==
    LET Raw(c) == raw[CHOOSE x \in DOMAIN raw : strip_name(x) = c]
        cols == {strip_name(x) : x \in DOMAIN raw}
        date == to_datetime(str_strip(Raw("Date")))
        month == (date \div 100) % 100
    IN [c \in cols \cup {"Year", "Month", "Month_Name"} |->
            CASE c = "Date" -> date
              [] c = "Year" -> date \div 10000
              [] c = "Month" -> month
              [] c = "Month_Name" -> MonthNames[month]
              [] OTHER -> Raw(c)]

\* The body of load_data: read the CSV and clean it.
read_and_clean(f) == [i \in 1..Len(f) |-> load_row(f[i])]

\* load_data without the decorator: every run reads the file again.
load_data_uncached == read_and_clean(file)

\* load_data with the cache entry dropped when the file has changed on disk.
load_data_keyed_on_file ==
    IF cache = Unbound \/ cache # read_and_clean(file) THEN read_and_clean(file) ELSE cache

\* load_data() under @st.cache_data: the function takes no argument, so the
\* one cache entry, once stored, answers every later call.
load_data == IF cache = Unbound THEN read_and_clean(file) ELSE cache

-----------------------------------------------------------------------------
(* Overview section (lines 64-91). *)

MonthlyData(d) == groupby_mean(d, <<"Date">>)

AreaData(d) == groupby_mean(d, <<"Date", "Area">>)

-----------------------------------------------------------------------------
(* Regional analysis section (lines 138-241). *)

\* line 143
all_regions(d) == sorted(unique(Column(d, "Region")))

MinDate(d) == CHOOSE x \in Range(Column(d, "Date")) : \A y \in Range(Column(d, "Date")) : x <= y
MaxDate(d) == CHOOSE x \in Range(Column(d, "Date")) : \A y \in Range(Column(d, "Date")) : x >= y

\* The filter with the end of the period excluded (< in place of <=).
FilteredDfExclusiveEnd(d, sel, tp, area) ==
    LET by_region == SelectSeq(d, LAMBDA r : r.Region \in Range(sel))
        by_time == SelectSeq(by_region, LAMBDA r : r.Date >= tp[1] /\ r.Date < tp[2])
    IN IF area # "Both" THEN SelectSeq(by_time, LAMBDA r : r.Area = area)
       ELSE by_time

\* The filter with a reversed period put in order before it is applied.
FilteredDfOrderedPeriod(d, sel, tp, area) ==
    LET lo == IF tp[1] <= tp[2] THEN tp[1] ELSE tp[2]
        hi == IF tp[1] <= tp[2] THEN tp[2] ELSE tp[1]
        by_region == SelectSeq(d, LAMBDA r : r.Region \in Range(sel))
        by_time == SelectSeq(by_region, LAMBDA r : r.Date >= lo /\ r.Date <= hi)
    IN IF area # "Both" THEN SelectSeq(by_time, LAMBDA r : r.Area = area)
       ELSE by_time

\* The filter with the area mask applied even for "Both" (no row has that area).
FilteredDfAreaAlways(d, sel, tp, area) ==
    LET by_region == SelectSeq(d, LAMBDA r : r.Region \in Range(sel))
        by_time == SelectSeq(by_region, LAMBDA r : r.Date >= tp[1] /\ r.Date <= tp[2])
    IN SelectSeq(by_time, LAMBDA r : r.Area = area)

\* lines 154-176: the three successive boolean-mask selections.
FilteredDf(d, sel, tp, area) ==
    LET by_region == SelectSeq(d, LAMBDA r : r.Region \in Range(sel))
        by_time == SelectSeq(by_region, LAMBDA r : r.Date >= tp[1] /\ r.Date <= tp[2])
    IN IF area # "Both" THEN SelectSeq(by_time, LAMBDA r : r.Area = area)
       ELSE by_time

\* lines 182-183
RegionData(fd) == sort_values_desc(groupby_mean(fd, <<"Region">>), RateCol)

\* line 203
RegionTimeData(fd) == groupby_mean(fd, <<"Region", "Date">>)

\* lines 227-241: one row per selected region, in selection order.  The two
\* coefficient columns are not carried: the model's rows hold the rate only.
CorrDf(fd, sel) == [i \in 1..Len(sel) |-> [Region |-> sel[i]]]

-----------------------------------------------------------------------------
(* Covid-19 impact section (lines 271-456). *)

pre_covid_start == 20190501
pre_covid_end == 20200229
post_covid_start == 20200301
post_covid_end == 20200630
covid_period_start == 20200101

\* df[(df['Date'] >= lo) & (df['Date'] <= hi)]
Between(d, lo, hi) == SelectSeq(d, LAMBDA r : r.Date >= lo /\ r.Date <= hi)

\* lines 282-283
PreCovidDf(d) == Between(d, pre_covid_start, pre_covid_end)
PostCovidDf(d) == Between(d, post_covid_start, post_covid_end)

\* t[RateCol].mean()
RateMean(t) == mean(Column(t, RateCol))

\* line 288: unguarded, so a zero pre-Covid mean gives +-inf or NaN.
PercentChange(pre, post) == FMul(FDiv(FSub(post, pre), pre), FromInt(100))

\* t[t[c] == v][RateCol].mean()  (lines 312-313, 383-384, 417-420)
MeanWhere(t, c, v) == RateMean(SelectSeq(t, LAMBDA r : r[c] = v))

\* lines 310-317: one row per region, in order of first appearance in df.
RegionImpact(d, pre_df, post_df) ==
    LET regions == unique(Column(d, "Region"))
    IN [i \in 1..Len(regions) |->
          [Region |-> regions[i],
           Change |-> FSub(MeanWhere(post_df, "Region", regions[i]),
                           MeanWhere(pre_df, "Region", regions[i]))]]

\* idxmax returning the last position of the largest value instead of the first.
idxmax_last(col) ==
    LET IsMax(i) == col[i] # NaN /\ \A j \in 1..Len(col) : ~FGt(col[j], col[i])
    IN IF \E i \in 1..Len(col) : IsMax(i)
       THEN CHOOSE i \in 1..Len(col) : IsMax(i) /\ \A j \in (i + 1)..Len(col) : ~IsMax(j)
       ELSE 0

\* Series.idxmax(): the first position of the largest non-NaN value; 0 stands
\* for the all-NaN column, on which line 318 raises (idxmax or .loc, by version).
idxmax(col) ==
    LET IsMax(i) == col[i] # NaN /\ \A j \in 1..Len(col) : ~FGt(col[j], col[i])
    IN IF \E i \in 1..Len(col) : IsMax(i)
       THEN CHOOSE i \in 1..Len(col) : IsMax(i) /\ \A j \in 1..(i - 1) : ~IsMax(j)
       ELSE 0

\* The percentage change without its guard, as line 288 computes the overall one.
GuardedPercentUnguarded(pre, post) == PercentChange(pre, post)

\* lines 386, 423-424: (change / pre) * 100 if pre > 0 else 0
GuardedPercent(pre, post) ==
    IF FGt(pre, Zero) THEN FMul(FDiv(FSub(post, pre), pre), FromInt(100)) ELSE Zero

\* lines 381-396
RegionImpactFull(d, pre_df, post_df) ==
    LET regions == unique(Column(d, "Region"))
        Row(region) ==
            LET pre == MeanWhere(pre_df, "Region", region)
                post == MeanWhere(post_df, "Region", region)
            IN [c \in {"Region", "Pre-Covid Rate", "Post-Covid Rate",
                       "Absolute Change", "Percentage Change"} |->
                  CASE c = "Region" -> region
                    [] c = "Pre-Covid Rate" -> pre
                    [] c = "Post-Covid Rate" -> post
                    [] c = "Absolute Change" -> FSub(post, pre)
                    [] c = "Percentage Change" -> GuardedPercent(pre, post)]
    IN sort_values_desc([i \in 1..Len(regions) |-> Row(regions[i])], "Absolute Change")

\* lines 417-424
AreaImpact(pre_df, post_df) ==
    LET rural_pre == MeanWhere(pre_df, "Area", "Rural")
        rural_post == MeanWhere(post_df, "Area", "Rural")
        urban_pre == MeanWhere(pre_df, "Area", "Urban")
        urban_post == MeanWhere(post_df, "Area", "Urban")
    IN [rural_pre |-> rural_pre, rural_post |-> rural_post,
        urban_pre |-> urban_pre, urban_post |-> urban_post,
        rural_change_pct |-> GuardedPercent(rural_pre, rural_post),
        urban_change_pct |-> GuardedPercent(urban_pre, urban_post)]

\* line 358
CovidMonthly(d) == groupby_mean(Between(d, covid_period_start, post_covid_end), <<"Date">>)

-----------------------------------------------------------------------------
(* The sections of main(), as the assignments one run makes. *)

\* lines 64-91, on the frame d that load_data returned
OverviewSection(d) ==
    /\ monthly_data' = MonthlyData(d)
    /\ area_data' = AreaData(d)

\* The regional section with the else branch dedented: the warning is shown
\* and the filter and its aggregates are computed all the same.
RegionalSectionNoElse(d, sel, tp, area) ==
    LET fd == FilteredDf(d, sel, tp, area)
    IN /\ warning' = (sel = <<>>)
       /\ filtered_df' = fd
       /\ region_data' = RegionData(fd)
       /\ region_time_data' = RegionTimeData(fd)
       /\ corr_df' = CorrDf(fd, sel)

\* lines 150-269: the warning, or the filter and its aggregates.
RegionalSection(d, sel, tp, area) ==
    IF sel = <<>>
    THEN /\ warning' = TRUE
         /\ filtered_df' = Unbound
         /\ region_data' = Unbound
         /\ region_time_data' = Unbound
         /\ corr_df' = Unbound
    ELSE LET fd == FilteredDf(d, sel, tp, area)
         IN /\ warning' = FALSE
            /\ filtered_df' = fd
            /\ region_data' = RegionData(fd)
            /\ region_time_data' = RegionTimeData(fd)
            /\ corr_df' = CorrDf(fd, sel)

\* lines 271-456, which read df only; the run ends at line 318 when no region
\* has both a pre- and a post-Covid mean.
CovidImpactSection(d) ==
    LET pre_df == PreCovidDf(d)
        post_df == PostCovidDf(d)
        pre_avg == RateMean(pre_df)
        post_avg == RateMean(post_df)
        region_impact == RegionImpact(d, pre_df, post_df)
        at == idxmax(Column(region_impact, "Change"))
    IN /\ pre_covid_df' = pre_df
       /\ post_covid_df' = post_df
       /\ pre_covid_avg' = pre_avg
       /\ post_covid_avg' = post_avg
       /\ percent_change' = PercentChange(pre_avg, post_avg)
       /\ IF at = 0
          THEN /\ raised' = TRUE
               /\ most_affected' = Unset
               /\ covid_monthly' = Unbound
               /\ region_impact_df' = Unbound
               /\ area_impact' = Unset
          ELSE /\ raised' = FALSE
               /\ most_affected' = region_impact[at]
               /\ covid_monthly' = CovidMonthly(d)
               /\ region_impact_df' = RegionImpactFull(d, pre_df, post_df)
               /\ area_impact' = AreaImpact(pre_df, post_df)

-----------------------------------------------------------------------------
(* The CSV files the specifications draw. *)

Regions == {"A", "B"}
Areas == {"Rural", "Urban"}
AreaOptions == {"Both", "Rural", "Urban"}

\* Date cells as the file writes them, day first, most with the stray leading
\* space: 29-02-2020 closes the pre-Covid window, 01-03-2020 opens the
\* post-Covid one, 31-07-2020 lies after both.  The Covid-impact specification
\* draws all three, the others the two window dates.
RawDates == {[lead |-> 1, text |-> <<29, 2, 2020>>],
             [lead |-> 1, text |-> <<1, 3, 2020>>],
             [lead |-> 0, text |-> <<31, 7, 2020>>]}
WindowRawDates == {[lead |-> 1, text |-> <<29, 2, 2020>>],
                   [lead |-> 1, text |-> <<1, 3, 2020>>]}
Rates == {0, 10}
\* The Covid-impact specification adds a rate whose quotients are not exact
\* in float64 (7 / 3, 10 / 3).
ImpactRates == {0, 3, 10}
\* The dashboard specification's files carry one rate: its claims are about
\* which rows each section reads, not about the means.
DashboardRates == {10}

Dates == {to_datetime(str_strip(c)) : c \in RawDates}
WindowDates == {to_datetime(str_strip(c)) : c \in WindowRawDates}

\* The CSV rows over the given regions, areas, date cells and rates.
CsvRows(regions, areas, dates, rates) ==
    {[c \in RawColumns |->
        CASE c = "Region" -> x[1]
          [] c = "Area" -> x[2]
          [] c = " Date" -> x[3]
          [] c = " Estimated Unemployment Rate (%)" -> x[4]] :
     x \in regions \X areas \X dates \X rates}

\* The non-empty CSVs of at most n rows.
CsvFiles(rows, n) == UNION {[1..k -> rows] : k \in 1..n}

\* The orders an unstable sort can leave the rows of a per-region table in
\* when their values are equal: every order of their positions.
TieOrders ==
    {o \in [1..Cardinality(Regions) -> 1..Cardinality(Regions)] :
        \A i, j \in 1..Cardinality(Regions) : i # j => o[i] # o[j]}

NothingRun ==
    /\ warning = FALSE
    /\ monthly_data = Unbound /\ area_data = Unbound
    /\ filtered_df = Unbound /\ region_data = Unbound
    /\ region_time_data = Unbound /\ corr_df = Unbound
    /\ pre_covid_df = Unbound /\ post_covid_df = Unbound
    /\ pre_covid_avg = Unset /\ post_covid_avg = Unset /\ percent_change = Unset
    /\ most_affected = Unset /\ covid_monthly = Unbound
    /\ region_impact_df = Unbound /\ area_impact = Unset
    /\ raised = FALSE
    /\ argsort_ties \in TieOrders
    /\ file_rows_seen = 0

-----------------------------------------------------------------------------
(* The dashboard: the server holds the file and the cache, a browser        *)
(* session holds the widgets, and every interaction runs main() again.      *)

Init ==
    /\ file \in CsvFiles(CsvRows(Regions, Areas, WindowRawDates, DashboardRates), MaxFileRows)
    /\ cache = Unbound
    /\ df = Unbound
    /\ selected_regions = <<>>
    /\ time_period = NoPeriod
    /\ selected_area = NoArea
    /\ NothingRun

\* main() with the Covid section reading filtered_df, where the run has one.
main_covid_on_filtered(sel, tp, area) ==
    LET d == load_data
    IN /\ cache' = d
       /\ df' = d
       /\ OverviewSection(d)
       /\ selected_regions' = sel
       /\ time_period' = IF sel = <<>> THEN NoPeriod ELSE tp
       /\ selected_area' = IF sel = <<>> THEN NoArea ELSE area
       /\ RegionalSection(d, sel, tp, area)
       /\ CovidImpactSection(IF sel = <<>> THEN d ELSE FilteredDf(d, sel, tp, area))
       /\ file_rows_seen' = Len(file)
       /\ UNCHANGED <<file, argsort_ties>>

\* One run of main() with the multiselect at sel; tp and area are what the
\* slider and the radio return if the run reaches them.
main(sel, tp, area) ==
    LET d == load_data
    IN /\ cache' = d
       /\ df' = d
       /\ OverviewSection(d)
       /\ selected_regions' = sel
       /\ time_period' = IF sel = <<>> THEN NoPeriod ELSE tp
       /\ selected_area' = IF sel = <<>> THEN NoArea ELSE area
       /\ RegionalSection(d, sel, tp, area)
       /\ CovidImpactSection(d)
       /\ file_rows_seen' = Len(file)
       /\ UNCHANGED <<file, argsort_ties>>

\* The first five of a list (all_regions[:5]).
FirstFive(s) == SubSeq(s, 1, IF Len(s) < 5 THEN Len(s) ELSE 5)

\* The slider's default value (line 161).
FullPeriod(d) == <<MinDate(d), MaxDate(d)>>

\* What the slider and the radio return in a run that renders them: their
\* value of the last run, or their default if that run did not render them.
SliderValue == IF time_period = NoPeriod THEN FullPeriod(df) ELSE time_period
RadioValue == IF selected_area = NoArea THEN "Both" ELSE selected_area

\* The session opens: the first run, every widget at its default.
OpenApp ==
    /\ df = Unbound
    /\ LET d == load_data
       IN main(FirstFive(all_regions(d)), FullPeriod(d), "Both")

\* The user adds a region to the multiselect.
SelectRegion(region) ==
    /\ df # Unbound
    /\ region \in Range(all_regions(df)) \ Range(selected_regions)
    /\ main(Append(selected_regions, region), SliderValue, RadioValue)

\* The user removes a region from the multiselect.
DeselectRegion(region) ==
    /\ df # Unbound
    /\ region \in Range(selected_regions)
    /\ main(SelectSeq(selected_regions, LAMBDA x : x # region), SliderValue, RadioValue)

\* The user moves the range slider (it is rendered; its ends stay ordered
\* and within the dates of df).
MoveSlider(lo, hi) ==
    /\ df # Unbound
    /\ time_period # NoPeriod
    /\ MinDate(df) <= lo /\ lo <= hi /\ hi <= MaxDate(df)
    /\ <<lo, hi>> # time_period
    /\ main(selected_regions, <<lo, hi>>, selected_area)

\* The user picks an area on the radio (it is rendered).
PickArea(area) ==
    /\ df # Unbound
    /\ selected_area # NoArea
    /\ area # selected_area
    /\ main(selected_regions, time_period, area)

\* The CSV on disk gets a new row; nothing runs.
AppendToFile(row) ==
    /\ Len(file) < MaxFileRows
    /\ file' = Append(file, row)
    /\ UNCHANGED <<cache, df, selected_regions, time_period, selected_area, warning,
                   monthly_data, area_data, filtered_df, region_data, region_time_data,
                   corr_df, pre_covid_df, post_covid_df, pre_covid_avg, post_covid_avg,
                   percent_change, most_affected, covid_monthly, region_impact_df,
                   area_impact, raised, argsort_ties, file_rows_seen>>

Next ==
    \/ OpenApp
    \/ \E region \in Regions : SelectRegion(region)
    \/ \E region \in Regions : DeselectRegion(region)
    \/ \E lo \in Dates, hi \in Dates : MoveSlider(lo, hi)
    \/ \E area \in AreaOptions : PickArea(area)
    \/ \E row \in CsvRows(Regions, Areas, WindowRawDates, DashboardRates) : AppendToFile(row)

Spec == Init /\ [][Next]_vars

-----------------------------------------------------------------------------
(* The regional section as a function of its inputs: any frame, any list of *)
(* regions, any pair of dates (ordered or not), any area option.            *)

FilterInit ==
    /\ file \in CsvFiles(CsvRows(Regions, Areas, WindowRawDates, Rates), MaxViewRows)
    /\ cache = Unbound
    /\ df = read_and_clean(file)
    /\ selected_regions \in {<<>>, <<"A">>, <<"B">>, <<"A", "B">>}
    /\ time_period \in WindowDates \X WindowDates
    /\ selected_area \in AreaOptions
    /\ NothingRun

\* Lines 64-269 on the inputs drawn.
RunRegional ==
    /\ monthly_data = Unbound
    /\ OverviewSection(df)
    /\ RegionalSection(df, selected_regions, time_period, selected_area)
    /\ UNCHANGED <<file, cache, df, selected_regions, time_period, selected_area,
                   pre_covid_df, post_covid_df, pre_covid_avg, post_covid_avg,
                   percent_change, most_affected, covid_monthly, region_impact_df,
                   area_impact, raised, argsort_ties, file_rows_seen>>

FilterNext == RunRegional

FilterSpec == FilterInit /\ [][FilterNext]_vars

-----------------------------------------------------------------------------
(* The Covid-19 impact section as a function of the frame.                  *)

ImpactInitOver(rows, n) ==
    /\ file \in CsvFiles(rows, n)
    /\ cache = Unbound
    /\ df = read_and_clean(file)
    /\ selected_regions = <<>>
    /\ time_period = NoPeriod
    /\ selected_area = NoArea
    /\ NothingRun

\* Lines 271-456 on the frame drawn.
RunCovidImpact ==
    /\ pre_covid_df = Unbound
    /\ CovidImpactSection(df)
    /\ UNCHANGED <<file, cache, df, selected_regions, time_period, selected_area,
                   warning, monthly_data, area_data, filtered_df, region_data,
                   region_time_data, corr_df, argsort_ties, file_rows_seen>>

ImpactNext == RunCovidImpact

ImpactInit == ImpactInitOver(CsvRows(Regions, Areas, RawDates, ImpactRates), MaxImpactRows)

ImpactSpec == ImpactInit /\ [][ImpactNext]_vars

\* Frames long enough for two regions to have a pre- and a post-Covid mean
\* each, all rows of one area.
TieInit == ImpactInitOver(CsvRows(Regions, {"Rural"}, WindowRawDates, Rates), MaxTieRows)

TieSpec == TieInit /\ [][ImpactNext]_vars

-----------------------------------------------------------------------------
(* Properties.  Their helpers restate what a table should hold from the     *)
(* rows of df, without the operators the sections are computed with.        *)

\* Row i of df passes the three selections of the regional section.
Kept(i) ==
    /\ df[i].Region \in Range(selected_regions)
    /\ time_period[1] <= df[i].Date /\ df[i].Date <= time_period[2]
    /\ (selected_area = "Both" \/ df[i].Area = selected_area)

KeptUpTo(i) == Cardinality({j \in 1..i : Kept(j)})

\* C1: the filtered view holds exactly the rows of df whose region is
\* selected, whose date lies in [start, end], both ends included, and whose
\* area is the chosen one (any area under "Both"), in the order of df.
C1_FilterExact ==
    filtered_df # Unbound =>
        /\ Len(filtered_df) = KeptUpTo(Len(df))
        /\ \A i \in 1..Len(df) : Kept(i) => filtered_df[KeptUpTo(i)] = df[i]

\* A view of one row out of two, cut by an area and by a one-day period
\* that starts and ends on the kept row's date.
C1_Witness ==
    /\ filtered_df # Unbound
    /\ Len(df) = 2 /\ Len(filtered_df) = 1
    /\ selected_area # "Both"
    /\ time_period[1] = time_period[2]
    /\ filtered_df[1].Date = time_period[1]
    /\ \E i \in 1..2 : df[i].Region \in Range(selected_regions) /\ df[i].Date > time_period[2]

RegionalUnbound ==
    /\ filtered_df = Unbound /\ region_data = Unbound
    /\ region_time_data = Unbound /\ corr_df = Unbound

\* No region of df has rows in both Covid windows (line 318 then raises).
NoRegionInBothWindows ==
    \A i \in 1..Len(df) :
        ~ /\ \E j \in 1..Len(df) : /\ df[j].Region = df[i].Region
                                   /\ pre_covid_start <= df[j].Date
                                   /\ df[j].Date <= pre_covid_end
          /\ \E k \in 1..Len(df) : /\ df[k].Region = df[i].Region
                                   /\ post_covid_start <= df[k].Date
                                   /\ df[k].Date <= post_covid_end

\* C2 as claimed: with no region selected the run computes no grouped mean,
\* no correlation and no impact aggregate, shows the warning and raises nothing.
C2_NoAggregateAtAll ==
    (df # Unbound /\ selected_regions = <<>>) =>
        /\ warning /\ RegionalUnbound
        /\ monthly_data = Unbound /\ area_data = Unbound
        /\ pre_covid_avg = Unset /\ post_covid_avg = Unset /\ percent_change = Unset
        /\ most_affected = Unset /\ covid_monthly = Unbound
        /\ region_impact_df = Unbound /\ area_impact = Unset
        /\ ~raised

\* C2 amended: with no region selected the run shows the warning and skips
\* the regional section only (filter, per-region means, correlations); the
\* overview means and the Covid-19 impact aggregates, which read df, are
\* computed as in any run, and the run raises only if df makes line 318 raise.
C2_RegionalSkippedOnly ==
    (df # Unbound /\ selected_regions = <<>>) =>
        /\ warning /\ RegionalUnbound
        /\ monthly_data # Unbound /\ area_data # Unbound
        /\ pre_covid_avg # Unset /\ post_covid_avg # Unset /\ percent_change # Unset
        /\ (raised <=> NoRegionInBothWindows)
        /\ ~raised => /\ most_affected # Unset /\ covid_monthly # Unbound
                      /\ region_impact_df # Unbound /\ area_impact # Unset

\* A run with the selection emptied that went through the Covid section.
C2_Witness ==
    /\ df # Unbound /\ selected_regions = <<>> /\ warning
    /\ RegionalUnbound
    /\ ~raised /\ most_affected # Unset /\ IsFinite(pre_covid_avg)

\* pct is (post - pre) / pre * 100 in float64 (NaN where a mean is missing).
IsPercentOf(pct, pre, post) ==
    /\ pct = FMul(FDiv(FSub(post, pre), pre), FromInt(100))
    /\ (IsFinite(pre) /\ IsFinite(post)) =>
          /\ FGt(post, pre) => FGt(pct, Zero) \/ FGt(Zero, pre)
          /\ FEq(post, pre) /\ ~IsZero(pre) => IsZero(pct)

\* The (pre, post, percentage) triples the Covid section reports: one per
\* region and one per area category.
ImpactTriples ==
    {<<region_impact_df[k]["Pre-Covid Rate"], region_impact_df[k]["Post-Covid Rate"],
       region_impact_df[k]["Percentage Change"]>> : k \in 1..Len(region_impact_df)}
    \cup {<<area_impact.rural_pre, area_impact.rural_post, area_impact.rural_change_pct>>,
          <<area_impact.urban_pre, area_impact.urban_post, area_impact.urban_change_pct>>}

EveryRegionReported ==
    {region_impact_df[k].Region : k \in 1..Len(region_impact_df)} = Range(Column(df, "Region"))

\* C3 as claimed: the percentage change is 0 when the pre-Covid mean is 0 and
\* (post - pre) / pre * 100 for every other pre-Covid mean.
C3_ZeroOnlyAtZero ==
    region_impact_df # Unbound =>
        /\ EveryRegionReported
        /\ \A t \in ImpactTriples :
              IF t[1] = Zero THEN t[3] = Zero ELSE IsPercentOf(t[3], t[1], t[2])

\* C3 amended: the percentage change is (post - pre) / pre * 100 when the
\* pre-Covid mean is greater than 0, and 0 in every other case: a mean of 0,
\* a negative mean, or no mean at all (no row of the region or area in the
\* pre-Covid window).
C3_ZeroUnlessPositive ==
    region_impact_df # Unbound =>
        /\ EveryRegionReported
        /\ \A t \in ImpactTriples :
              IF FGt(t[1], Zero) THEN IsPercentOf(t[3], t[1], t[2])
              ELSE t[3] = Zero

\* A report with a zero pre-Covid mean (rural), a positive one whose
\* percentage is not zero, and one whose percentage is rounded.
C3_Witness ==
    /\ region_impact_df # Unbound
    /\ area_impact.rural_pre = Zero /\ area_impact.rural_change_pct = Zero
    /\ \E t \in ImpactTriples : FGt(t[1], Zero) /\ IsFinite(t[3]) /\ ~IsZero(t[3])
    \* from 3 to 10: 233.33333333333334
    /\ \E t \in ImpactTriples :
          /\ t[1] = FromInt(3) /\ t[2] = FromInt(10)
          /\ t[3] = [k |-> "num", s |-> 1, hi |-> 61166933, lo |-> 44739243, e |-> -45]

ChangeOf(region) ==
    FSub(mean(Column(SelectSeq(df, LAMBDA r : /\ r.Region = region
                                              /\ post_covid_start <= r.Date
                                              /\ r.Date <= post_covid_end), RateCol)),
         mean(Column(SelectSeq(df, LAMBDA r : /\ r.Region = region
                                              /\ pre_covid_start <= r.Date
                                              /\ r.Date <= pre_covid_end), RateCol)))

RegionsOfDf == Range(Column(df, "Region"))

\* The region's change is defined and no region's change is larger.
HasMaxChange(region) ==
    /\ ChangeOf(region) # NaN
    /\ \A q \in RegionsOfDf : ~FGt(ChangeOf(q), ChangeOf(region))

FirstRowOf(region) == CHOOSE i \in 1..Len(df) : df[i].Region = region /\ \A j \in 1..(i - 1) : df[j].Region # region

\* C4 as claimed: the most affected region has the largest absolute change,
\* and of several regions with that change the alphabetically first is taken.
C4_AlphabeticalTieBreak ==
    most_affected # Unset =>
        /\ HasMaxChange(most_affected.Region)
        /\ most_affected.Change = ChangeOf(most_affected.Region)
        /\ \A q \in RegionsOfDf : HasMaxChange(q) => StrRank(most_affected.Region) <= StrRank(q)

\* C4 amended: the most affected region has the largest defined absolute
\* change, and of several regions with that change the one whose first row
\* comes first in the file is taken; there is a most affected region exactly
\* when some region has a mean in both windows.
C4_FirstAppearanceTieBreak ==
    pre_covid_df # Unbound =>
        /\ (most_affected # Unset) <=> (\E q \in RegionsOfDf : HasMaxChange(q))
        /\ most_affected # Unset =>
              /\ HasMaxChange(most_affected.Region)
              /\ most_affected.Change = ChangeOf(most_affected.Region)
              /\ \A q \in RegionsOfDf : HasMaxChange(q) =>
                    FirstRowOf(most_affected.Region) <= FirstRowOf(q)

\* Regions A and B both rose by 10 and B's rows come first: B is reported.
C4_Witness ==
    /\ most_affected # Unset
    /\ HasMaxChange("A") /\ HasMaxChange("B")
    /\ ChangeOf("A") = FromInt(10)
    /\ FirstRowOf("B") < FirstRowOf("A")
    /\ most_affected.Region = "B"

\* C5 as claimed: a load answered from the cache returns what reading the
\* file at that moment returns.
C5_CacheHitIsFresh ==
    [][(cache # Unbound /\ file' = file) => df' = read_and_clean(file')]_vars

\* C5 amended: a load answered from the cache returns the frame read when the
\* cache was filled (the rows the file had then), whatever the file holds
\* now; it equals a fresh load provided the file has not changed since.
C5_CacheHitIsFirstRead ==
    [][(cache # Unbound /\ file' = file) =>
          /\ df' = cache /\ cache' = cache
          /\ cache = read_and_clean(SubSeq(file, 1, Len(cache)))
          /\ (Len(file) = Len(cache) => df' = read_and_clean(file'))]_vars

\* A run that found more rows on disk than the cached frame it was given.
C5_Witness ==
    /\ df # Unbound /\ df = cache
    /\ file_rows_seen > Len(df)
    /\ df # read_and_clean(file)

\* C6: a period whose end is before its start gives an empty view and no row
\* in either grouped mean computed on it.
C6_ReversedPeriodEmpty ==
    (filtered_df # Unbound /\ time_period[2] < time_period[1]) =>
        /\ filtered_df = <<>>
        /\ region_data = <<>>
        /\ region_time_data = <<>>

\* A reversed period whose two ends are dates of selected rows of df.
C6_Witness ==
    /\ filtered_df = <<>>
    /\ time_period[2] < time_period[1]
    /\ selected_area = "Both"
    /\ \E i, j \in 1..Len(df) : /\ df[i].Region \in Range(selected_regions)
                                /\ df[j].Region \in Range(selected_regions)
                                /\ df[i].Date = time_period[1]
                                /\ df[j].Date = time_period[2]

\* C7: with every region of df selected, the period from df's first to its
\* last date and area "Both", the filtered view is df itself.
C7_FullSelectionIsIdentity ==
    ( /\ filtered_df # Unbound
      /\ Range(selected_regions) = RegionsOfDf
      /\ time_period = <<MinDate(df), MaxDate(df)>>
      /\ selected_area = "Both" ) => filtered_df = df

\* The full selection on two rows that differ in region, date and area.
C7_Witness ==
    /\ filtered_df # Unbound /\ Len(df) = 2
    /\ Range(selected_regions) = RegionsOfDf
    /\ time_period = <<MinDate(df), MaxDate(df)>>
    /\ selected_area = "Both"
    /\ df[1].Region # df[2].Region /\ df[1].Date # df[2].Date /\ df[1].Area # df[2].Area
    /\ filtered_df = df

RECURSIVE SumRates(_, _)
SumRates(source, rows) ==
    IF rows = {} THEN 0
    ELSE LET i == CHOOSE i \in rows : TRUE
         IN source[i][RateCol] + SumRates(source, rows \ {i})

\* table has one row for each key tuple of source and no other row, and each
\* row's mean is a number: the float64 nearest the sum of its group's rates
\* over their count.
GroupedExactly(table, source, keys) ==
    LET Matches(row, src) == \A k \in 1..Len(keys) : row[keys[k]] = src[keys[k]]
    IN /\ \A i \in 1..Len(source) :
            Cardinality({k \in 1..Len(table) : Matches(table[k], source[i])}) = 1
       /\ \A k \in 1..Len(table) :
            LET rows == {i \in 1..Len(source) : Matches(table[k], source[i])}
                m == table[k][RateCol]
            IN /\ rows # {}
               /\ IsFinite(m)
               /\ m = FDiv(FromInt(SumRates(source, rows)), FromInt(Cardinality(rows)))

\* C8: each grouped mean (by date, by date and area, by region, by region and
\* date) has exactly one row per key tuple that occurs in the table it
\* groups, none for a tuple that does not occur, and no NaN or made-up mean.
C8_OneRowPerOccurringKey ==
    /\ monthly_data # Unbound =>
          /\ GroupedExactly(monthly_data, df, <<"Date">>)
          /\ GroupedExactly(area_data, df, <<"Date", "Area">>)
    /\ filtered_df # Unbound =>
          /\ GroupedExactly(region_data, filtered_df, <<"Region">>)
          /\ GroupedExactly(region_time_data, filtered_df, <<"Region", "Date">>)

\* Two dates and two areas of which only two combinations occur, and a
\* region whose mean averages two rows.
C8_Witness ==
    /\ monthly_data # Unbound /\ filtered_df # Unbound
    /\ Len(area_data) = 2
    /\ area_data[1].Date # area_data[2].Date /\ area_data[1].Area # area_data[2].Area
    /\ Len(region_data) = 1 /\ region_data[1][RateCol] = FromInt(5)
    /\ Len(region_time_data) = 2

\* C9: once loaded, the frame stays as it is through every later run.
C9_DatasetImmutable ==
    [][df # Unbound => (df' = df /\ cache' = cache)]_vars

\* A later run whose view is narrower than the frame it was cut from, with
\* the file on disk changed in between.
C9_Witness ==
    /\ df # Unbound /\ filtered_df # Unbound
    /\ Len(filtered_df) < Len(df)
    /\ file_rows_seen > Len(df)

CovidResults ==
    <<pre_covid_df, post_covid_df, pre_covid_avg, post_covid_avg, percent_change,
      most_affected, covid_monthly, region_impact_df, area_impact, raised>>

\* C10: runs on the same frame give the same Covid-19 impact results,
\* whatever regions, period and area each run has selected.
C10_ImpactIgnoresSelection ==
    [][(df # Unbound /\ df' = df) => CovidResults' = CovidResults]_vars

\* A run whose view leaves rows of df out and whose impact section, read
\* from all of df, found a most affected region.
C10_Witness ==
    /\ df # Unbound /\ ~raised /\ most_affected # Unset
    /\ filtered_df # Unbound /\ Len(filtered_df) < Len(df)
    /\ Len(pre_covid_df) + Len(post_covid_df) = Len(df)

=============================================================================
